---- MODULE Spec2Model ----
(***************************************************************************)
(* Session lifecycle of AuthProvider (src/src/hooks/useAuth.tsx): signIn,  *)
(* signOut, the header-sync effect and the startup restore effect.         *)
(*                                                                         *)
(* Each async function is a process whose steps are the synchronous        *)
(* stretches between two awaits: a step fires when the awaited call        *)
(* settles (its outcome is an input of the step) and runs the code up to   *)
(* the next await or to the end of the function.  A storage call takes     *)
(* effect when it settles.  The header-sync effect (deps [userToken]) runs *)
(* at the end of every step that changed userToken.  `completed` describes *)
(* the call that left its function in the last step, so that a property of *)
(* the moment a call finishes is a state predicate.                        *)
(***************************************************************************)
EXTENDS Integers, Sequences, FiniteSets, TLC

(* ---------------------------- bounds ----------------------------------- *)
\* number of signIn invocations in one run; all of them may be in flight at
\* once (signOut may be invoked any number of times, one call at a time)
MaxSignInCalls == 1
\* longest profile list ("data.data") the users route returns
MaxProfiles == 1

(* ---------------------------- values ----------------------------------- *)
Tokens == {"t1", "t2"}
Logins == {"alice", "bob"}
Users == {[id |-> 1, login |-> "alice"], [id |-> 2, login |-> "bob"]}
\* the random values generateRandom(30) may produce / the flow may echo
States == {"s1", "s2"}

\* {} as User
EmptyUser == << >>
\* value of a property read from an object that lacks it
Undefined == "undefined"

KEYS == [TOKEN |-> "@twitch:token", USER |-> "@twitch:user"]
CLIENT_ID == "client-id"

\* signIn has no re-entrancy guard: calls may be in flight together
SignInIds == 1..MaxSignInCalls

(* ---------------------------- pure helpers ------------------------------ *)
\* JSON.stringify of a user object
Stringify(u) ==
    IF u = EmptyUser THEN <<"{", "}">>
    ELSE <<"{", "id", u.id, "login", u.login, "}">>

\* JSON.parse of a stored user string
Parse(s) ==
    IF Len(s) = 2 THEN EmptyUser
    ELSE [id |-> s[3], login |-> s[5]]

\* `Bearer ${token}`
Bearer(t) == <<"Bearer", t>>

\* new Error(error as any): the message is String(error) = "Error: " + message
WrapError(msg) == <<"Error:">> \o msg

\* obj[k] = v
Put(f, k, v) == [x \in (DOMAIN f) \cup {k} |-> IF x = k THEN v ELSE f[x]]

\* delete obj[k]  /  AsyncStorage.removeItem(k)
Remove(f, k) == [x \in (DOMAIN f) \ {k} |-> f[x]]

\* AsyncStorage.getItem(k) copied into the locals of the restore
ReadInto(locals, store, k) ==
    IF k \in DOMAIN store THEN Put(locals, k, store[k]) ELSE locals

\* userLogged?.login, userLogged = storagedUser ? JSON.parse(storagedUser) : null
UserLoggedLogin(locals) ==
    IF KEYS.USER \in DOMAIN locals
    THEN LET u == Parse(locals[KEYS.USER])
         IN  IF u = EmptyUser THEN Undefined ELSE u.login
    ELSE Undefined

\* line 104: response.type === "success"
IsSuccess_NotError(response) == response.type # "error"

IsSuccess(response) == response.type = "success"

\* lines 105-112: the comparison of response.params.state with STATE is
\* commented out, every returned state is accepted
StateAccepted_Checked(generated, response) == response.state = generated

StateAccepted(generated, response) == TRUE

\* line 207: if (storagedToken)
HasStoredToken_OrUser(locals) == DOMAIN locals # {}

HasStoredToken(locals) == KEYS.TOKEN \in DOMAIN locals

\* line 219: data.login === userLogged?.login
LoginMatches_Token(login, locals) == login = locals[KEYS.TOKEN]

LoginMatches_AnyUser(login, locals) == KEYS.USER \in DOMAIN locals

LoginMatches(login, locals) == login = UserLoggedLogin(locals)

\* line 136: AsyncStorage.setItem(KEYS.USER, JSON.stringify(data.data[0]))
PersistUser_TokenKey(store, prof) == Put(store, KEYS.TOKEN, Stringify(prof))

PersistUser(store, prof) == Put(store, KEYS.USER, Stringify(prof))

\* line 180: delete api.defaults.headers.common["Authorization"]
ClearAuthorization_Skipped(hdrs) == hdrs

ClearAuthorization(hdrs) == Remove(hdrs, "Authorization")

\* line 228: AsyncStorage.removeItem(KEYS.USER) of the restore
RestoreForgetUser_TokenKey(store) == Remove(store, KEYS.TOKEN)

RestoreForgetUser(store) == Remove(store, KEYS.USER)

\* header-sync effect, deps [userToken]: runs after a step that changed userToken
HeaderSync(before, after, hdrs) ==
    IF after = before THEN hdrs
    ELSE LET h == Put(hdrs, "Client-Id", CLIENT_ID)
         IN  IF after # "" THEN Put(h, "Authorization", Bearer(after)) ELSE h

\* non-empty profile lists of length at most MaxProfiles
ProfileLists == UNION {[1..n -> Users] : n \in 1..MaxProfiles}

\* results of startAsync
AuthResponses ==
    [type : {"success"}, access_token : Tokens, state : States]
    \cup [type : {"cancel", "error"}, access_token : {""}, state : {""}]

(* ---------------------------- state ------------------------------------ *)
VARIABLES
    user,          \* useState({} as User)
    userToken,     \* useState("")
    isLoggingIn,   \* useState(false)
    isLoggingOut,  \* useState(false)
    headers,       \* api.defaults.headers.common
    storage,       \* AsyncStorage
    si,            \* the signIn calls in flight
    so,            \* the signOut call in flight
    rs,            \* the startup restore
    calls,         \* number of signIn invocations so far
    completed      \* the call that settled in the last step, with what it did

vars == <<user, userToken, isLoggingIn, isLoggingOut, headers, storage,
          si, so, rs, calls, completed>>

Resolved == <<"resolved">>
Rejected(err) == <<"rejected">> \o err

\* user and userToken together
Session(u, t) == [user |-> u, userToken |-> t]

\* a signIn call: where it waits, its locals (response.params.access_token,
\* data.data[0]) and what it has done so far (echoed: while the profile
\* request is pending, whether the authorization returned the generated STATE;
\* changed: its setUser and setUserToken gave user or userToken a new value)
IdleSignIn ==
    [pc |-> "idle", tok |-> "", prof |-> EmptyUser, solo |-> FALSE,
     auth |-> "none", echoed |-> FALSE, profile |-> "none", first |-> EmptyUser,
     writes |-> {}, changed |-> FALSE]

IdleSignOut ==
    [pc |-> "idle", solo |-> FALSE, revoked |-> "none", deletes |-> {}]

\* the restore: where it waits, its locals (storagedToken, storagedUser) and
\* what it has done so far
IdleRestore ==
    [pc |-> "done", locals |-> << >>, solo |-> FALSE, requests |-> {},
     validated |-> "none", deletes |-> {}]

\* no call settled in the last step
NoCompletion ==
    [op |-> "none", id |-> 0, result |-> << >>, solo |-> FALSE, auth |-> "none",
     profile |-> "none", first |-> EmptyUser, writes |-> {}, revoked |-> "none",
     deletes |-> {}, outcome |-> "none", locals |-> << >>, requests |-> {},
     validated |-> "none", changed |-> FALSE]

\* What an earlier run left in storage: a token and a user, each present or
\* not.  Tokens and users are interchangeable, so one of each stands for all.
StoredToken == CHOOSE t \in Tokens : TRUE
StoredUser == CHOOSE u \in Users : TRUE

SignInFlight(i) == si[i].pc \in {"auth", "profile", "setTok", "setUser"}
SignOutFlight == so.pc \in {"revoke", "rmTok", "rmUser"}
RestoreFlight == rs.pc \in {"getTok", "getUser", "validate", "rmTok", "rmUser"}

\* every running signIn other than the one starting now is overlapped by it
OverlapSignIns(except) ==
    [j \in SignInIds |-> IF j # except /\ SignInFlight(j)
                         THEN [si[j] EXCEPT !.solo = FALSE] ELSE si[j]]

Init ==
    /\ user = EmptyUser
    /\ userToken = ""
    /\ isLoggingIn = FALSE
    /\ isLoggingOut = FALSE
    /\ headers = [h \in {"Client-Id"} |-> CLIENT_ID]
    /\ \E present \in SUBSET {KEYS.TOKEN, KEYS.USER} :
          storage = [k \in present |-> IF k = KEYS.TOKEN THEN StoredToken
                                                          ELSE Stringify(StoredUser)]
    /\ si = [i \in SignInIds |-> IdleSignIn]
    /\ so = IdleSignOut
    /\ rs = [IdleRestore EXCEPT !.pc = "getTok", !.solo = TRUE]
    /\ calls = 0
    /\ completed = NoCompletion

(* ---------------------------- signIn ----------------------------------- *)
\* lines 68-100: setIsLoggingIn(true), build authUrl, call startAsync
SignInStart(i) ==
    /\ si[i].pc = "idle"
    /\ \A j \in SignInIds : j < i => SignInFlight(j)
    /\ calls < MaxSignInCalls
    /\ isLoggingIn' = TRUE
    /\ si' = [OverlapSignIns(i) EXCEPT ![i] =
                [IdleSignIn EXCEPT !.pc = "auth",
                    !.solo = ~SignOutFlight /\ ~RestoreFlight
                             /\ \A j \in SignInIds : j # i => ~SignInFlight(j)]]
    /\ so' = [so EXCEPT !.solo = FALSE]
    /\ rs' = [rs EXCEPT !.solo = FALSE]
    /\ calls' = calls + 1
    /\ completed' = NoCompletion
    /\ UNCHANGED <<user, userToken, isLoggingOut, headers, storage>>

\* the call has left the function: its locals are gone
SignInExit(i, call, result) ==
    /\ si' = [si EXCEPT ![i] = IdleSignIn]
    /\ completed' = [NoCompletion EXCEPT !.op = "signIn", !.id = i, !.result = result,
                        !.solo = call.solo, !.auth = call.auth,
                        !.profile = call.profile, !.first = call.first,
                        !.writes = call.writes, !.changed = call.changed]

\* lines 145-152: catch rethrows new Error(error), finally setIsLoggingIn(false)
SignInReject_NoReset(i, call, err) ==
    /\ UNCHANGED isLoggingIn
    /\ SignInExit(i, call, Rejected(WrapError(err)))

SignInReject(i, call, err) ==
    /\ isLoggingIn' = FALSE
    /\ SignInExit(i, call, Rejected(WrapError(err)))

\* lines 102-144: what signIn does with the settled startAsync: on success set
\* the header and call api.get("/users"), otherwise throw
\* new Error("Access denied")
SignInAuthStep(call, generated, response, hdrs) ==
    IF ~IsSuccess(response)
    THEN [thrown |-> <<"Error:", "Access denied">>, headers |-> hdrs,
          call |-> [call EXCEPT !.auth = response.type]]
    ELSE IF ~StateAccepted(generated, response)
    THEN [thrown |-> <<"Error:", "Invalid state value">>, headers |-> hdrs,
          call |-> [call EXCEPT !.auth = response.type]]
    ELSE [thrown |-> << >>,
          headers |-> Put(hdrs, "Authorization", Bearer(response.access_token)),
          call |-> [call EXCEPT !.pc = "profile",
                                !.tok = response.access_token,
                                !.auth = response.type,
                                !.profile = "requested"]]

\* lines 90-144: startAsync settled.  STATE = generateRandom(30) of line 90 is
\* a local that only the comparison of lines 105-112 would read: its value is
\* drawn here, where it would be read
SignInAuthReturn(i) ==
    /\ si[i].pc = "auth"
    /\ \E generated \in States, response \in AuthResponses :
        LET step == SignInAuthStep(si[i], generated, response, headers)
            echoed == response.state = generated
        IN  /\ headers' = step.headers
            /\ IF step.thrown = << >>
               THEN /\ si' = [si EXCEPT ![i] = [step.call EXCEPT !.echoed = echoed]]
                    /\ completed' = NoCompletion
                    /\ UNCHANGED isLoggingIn
               ELSE SignInReject(i, step.call, step.thrown)
    /\ UNCHANGED <<user, userToken, isLoggingOut, storage, so, rs, calls>>

\* lines 137-152: api.get threw; the inner catch throws new Error(e)
SignInProfileFailed_Swallowed(i) ==
    /\ isLoggingIn' = FALSE
    /\ SignInExit(i, [si[i] EXCEPT !.profile = "failed"], Resolved)

SignInProfileFailed(i) ==
    SignInReject(i, [si[i] EXCEPT !.profile = "failed"],
                 WrapError(<<"AxiosError:", "profile request failed">>))

\* lines 121-139: api.get settled; on success setUser, setUserToken, call
\* setItem(TOKEN), otherwise throw new Error(e)
SignInProfileReturn(i) ==
    /\ si[i].pc = "profile"
    /\ \/ \E data \in ProfileLists :
            /\ user' = data[1]
            /\ userToken' = si[i].tok
            /\ headers' = HeaderSync(userToken, si[i].tok, headers)
            /\ si' = [si EXCEPT ![i].pc = "setTok", ![i].prof = data[1],
                                ![i].echoed = FALSE,
                                ![i].changed =
                                    Session(data[1], si[i].tok) # Session(user, userToken),
                                ![i].profile = "ok", ![i].first = Head(data)]
            /\ completed' = NoCompletion
            /\ UNCHANGED isLoggingIn
       \/ /\ SignInProfileFailed(i)
          /\ UNCHANGED <<user, userToken, headers>>
    /\ UNCHANGED <<isLoggingOut, storage, so, rs, calls>>

\* lines 135-139: setItem(TOKEN) settled; on success call setItem(USER)
SignInSetTokenReturn(i) ==
    /\ si[i].pc = "setTok"
    /\ \/ /\ storage' = Put(storage, KEYS.TOKEN, si[i].tok)
          /\ si' = [si EXCEPT ![i].pc = "setUser", ![i].writes = @ \cup {KEYS.TOKEN}]
          /\ completed' = NoCompletion
          /\ UNCHANGED isLoggingIn
       \/ /\ SignInReject(i, si[i], WrapError(<<"Error:", "storage write failed">>))
          /\ UNCHANGED storage
    /\ UNCHANGED <<user, userToken, isLoggingOut, headers, so, rs, calls>>

\* lines 136-152: setItem(USER) settled; finally setIsLoggingIn(false)
SignInSetUserReturn(i) ==
    /\ si[i].pc = "setUser"
    /\ \/ /\ storage' = PersistUser(storage, si[i].prof)
          /\ isLoggingIn' = FALSE
          /\ SignInExit(i, [si[i] EXCEPT !.writes = @ \cup {KEYS.USER}], Resolved)
       \/ /\ SignInReject(i, si[i], WrapError(<<"Error:", "storage write failed">>))
          /\ UNCHANGED storage
    /\ UNCHANGED <<user, userToken, isLoggingOut, headers, so, rs, calls>>

(* ---------------------------- signOut ---------------------------------- *)
\* lines 155-169: setIsLoggingOut(true), call revokeAsync
SignOutStart ==
    /\ so.pc = "idle"
    /\ isLoggingOut' = TRUE
    /\ so' = [IdleSignOut EXCEPT !.pc = "revoke",
                 !.solo = ~RestoreFlight /\ \A j \in SignInIds : ~SignInFlight(j)]
    /\ si' = OverlapSignIns(0)
    /\ rs' = [rs EXCEPT !.solo = FALSE]
    /\ completed' = NoCompletion
    /\ UNCHANGED <<user, userToken, isLoggingIn, headers, storage, calls>>

\* the call has left the function
SignOutExit(call, result) ==
    /\ so' = IdleSignOut
    /\ completed' = [NoCompletion EXCEPT !.op = "signOut", !.result = result,
                        !.solo = call.solo, !.revoked = call.revoked,
                        !.deletes = call.deletes]

\* lines 170-181: revokeAsync settled, its error is caught and dropped; finally
\* clear user, token and the Authorization header, call removeItem(TOKEN)
SignOutRevokeReturn_Uncaught ==
    /\ so.pc = "revoke"
    /\ \/ /\ so' = [so EXCEPT !.pc = "rmTok", !.revoked = "ok"]
          /\ user' = EmptyUser
          /\ userToken' = ""
          /\ headers' = HeaderSync(userToken, "", ClearAuthorization(headers))
          /\ completed' = NoCompletion
       \/ /\ SignOutExit([so EXCEPT !.revoked = "failed"],
                          Rejected(<<"Error:", "revocation failed">>))
          /\ UNCHANGED <<user, userToken, headers>>
    /\ UNCHANGED <<isLoggingIn, isLoggingOut, storage, si, rs, calls>>

SignOutRevokeReturn ==
    /\ so.pc = "revoke"
    /\ \E ok \in BOOLEAN :
         so' = [so EXCEPT !.pc = "rmTok", !.revoked = IF ok THEN "ok" ELSE "failed"]
    /\ user' = EmptyUser
    /\ userToken' = ""
    /\ headers' = HeaderSync(userToken, "", ClearAuthorization(headers))
    /\ completed' = NoCompletion
    /\ UNCHANGED <<isLoggingIn, isLoggingOut, storage, si, rs, calls>>

\* lines 181-182: removeItem(TOKEN) settled; on success call removeItem(USER),
\* on failure the finally block throws and the rest of it is skipped
SignOutRemoveTokenReturn ==
    /\ so.pc = "rmTok"
    /\ \/ /\ storage' = Remove(storage, KEYS.TOKEN)
          /\ so' = [so EXCEPT !.pc = "rmUser", !.deletes = @ \cup {KEYS.TOKEN}]
          /\ completed' = NoCompletion
       \/ /\ SignOutExit(so, Rejected(<<"Error:", "storage delete failed">>))
          /\ UNCHANGED storage
    /\ UNCHANGED <<user, userToken, isLoggingIn, isLoggingOut, headers, si, rs, calls>>

\* lines 182-184: removeItem(USER) settled; on success setIsLoggingOut(false),
\* on failure the finally block throws before it
SignOutRemoveUserReturn ==
    /\ so.pc = "rmUser"
    /\ \/ /\ storage' = Remove(storage, KEYS.USER)
          /\ isLoggingOut' = FALSE
          /\ SignOutExit([so EXCEPT !.deletes = @ \cup {KEYS.USER}], Resolved)
       \/ /\ SignOutExit(so, Rejected(<<"Error:", "storage delete failed">>))
          /\ UNCHANGED <<storage, isLoggingOut>>
    /\ UNCHANGED <<user, userToken, isLoggingIn, headers, si, rs, calls>>

(* ---------------------------- startup restore -------------------------- *)
\* the async function of the effect has returned or thrown: its locals are gone
RestoreExit(call, outcome, result) ==
    /\ rs' = IdleRestore
    /\ completed' = [NoCompletion EXCEPT !.op = "restore", !.result = result,
                        !.solo = call.solo, !.outcome = outcome,
                        !.locals = call.locals, !.requests = call.requests,
                        !.validated = call.validated, !.deletes = call.deletes]

\* line 202: getItem(TOKEN) settled; call getItem(USER)
RestoreGetTokenReturn ==
    /\ rs.pc = "getTok"
    /\ \/ /\ rs' = [rs EXCEPT !.pc = "getUser",
                              !.locals = ReadInto(rs.locals, storage, KEYS.TOKEN)]
          /\ completed' = NoCompletion
       \/ RestoreExit(rs, "readFailed", Rejected(<<"Error:", "storage read failed">>))
    /\ UNCHANGED <<user, userToken, isLoggingIn, isLoggingOut, headers, storage,
                   si, so, calls>>

\* lines 203-217: getItem(USER) settled; with a stored token setIsLoggingIn(true)
\* and call the validate endpoint, without one return
RestoreGetUserReturn ==
    /\ rs.pc = "getUser"
    /\ \/ LET locals == ReadInto(rs.locals, storage, KEYS.USER)
          IN  IF HasStoredToken(locals)
              THEN /\ isLoggingIn' = TRUE
                   /\ rs' = [rs EXCEPT !.pc = "validate", !.locals = locals,
                                       !.requests = {"validate"}]
                   /\ completed' = NoCompletion
              ELSE /\ RestoreExit([rs EXCEPT !.locals = locals], "noToken", Resolved)
                   /\ UNCHANGED isLoggingIn
       \/ /\ RestoreExit(rs, "readFailed", Rejected(<<"Error:", "storage read failed">>))
          /\ UNCHANGED isLoggingIn
    /\ UNCHANGED <<user, userToken, isLoggingOut, headers, storage, si, so, calls>>

\* line 225: setUser({} as User) in the catch block of the restore
RestoreCatchUser_Kept == user

RestoreCatchUser == EmptyUser

\* lines 210-231: the validate request settled; on a login match setUserToken and
\* setUser, on an error clear them and call removeItem(TOKEN)
RestoreValidateReturn ==
    /\ rs.pc = "validate"
    /\ \/ \E login \in Logins :
            IF LoginMatches(login, rs.locals)
            THEN /\ userToken' = rs.locals[KEYS.TOKEN]
                 /\ user' = Parse(rs.locals[KEYS.USER])
                 /\ headers' = HeaderSync(userToken, rs.locals[KEYS.TOKEN], headers)
                 /\ isLoggingIn' = FALSE
                 /\ RestoreExit([rs EXCEPT !.validated = login], "match", Resolved)
            ELSE /\ isLoggingIn' = FALSE
                 /\ RestoreExit([rs EXCEPT !.validated = login], "mismatch", Resolved)
                 /\ UNCHANGED <<user, userToken, headers>>
       \/ /\ userToken' = ""
          /\ user' = RestoreCatchUser
          /\ headers' = HeaderSync(userToken, "", headers)
          /\ rs' = [rs EXCEPT !.pc = "rmTok", !.locals = << >>, !.validated = "failed"]
          /\ completed' = NoCompletion
          /\ UNCHANGED isLoggingIn
    /\ UNCHANGED <<isLoggingOut, storage, si, so, calls>>

\* lines 227-231: removeItem(TOKEN) settled; on success call removeItem(USER),
\* on failure the catch block throws and finally setIsLoggingIn(false)
RestoreRemoveTokenReturn ==
    /\ rs.pc = "rmTok"
    /\ \/ /\ storage' = Remove(storage, KEYS.TOKEN)
          /\ rs' = [rs EXCEPT !.pc = "rmUser", !.deletes = @ \cup {KEYS.TOKEN}]
          /\ completed' = NoCompletion
          /\ UNCHANGED isLoggingIn
       \/ /\ isLoggingIn' = FALSE
          /\ RestoreExit(rs, "invalid", Rejected(<<"Error:", "storage delete failed">>))
          /\ UNCHANGED storage
    /\ UNCHANGED <<user, userToken, isLoggingOut, headers, si, so, calls>>

\* lines 228-231: removeItem(USER) settled; finally setIsLoggingIn(false)
RestoreRemoveUserReturn ==
    /\ rs.pc = "rmUser"
    /\ isLoggingIn' = FALSE
    /\ \/ /\ storage' = RestoreForgetUser(storage)
          /\ RestoreExit([rs EXCEPT !.deletes = @ \cup {KEYS.USER}], "invalid", Resolved)
       \/ /\ RestoreExit(rs, "invalid", Rejected(<<"Error:", "storage delete failed">>))
          /\ UNCHANGED storage
    /\ UNCHANGED <<user, userToken, isLoggingOut, headers, si, so, calls>>

(* ---------------------------- specification ---------------------------- *)
Next ==
    \/ \E i \in SignInIds : SignInStart(i)
    \/ \E i \in SignInIds : SignInAuthReturn(i)
    \/ \E i \in SignInIds : SignInProfileReturn(i)
    \/ \E i \in SignInIds : SignInSetTokenReturn(i)
    \/ \E i \in SignInIds : SignInSetUserReturn(i)
    \/ SignOutStart
    \/ SignOutRevokeReturn
    \/ SignOutRemoveTokenReturn
    \/ SignOutRemoveUserReturn
    \/ RestoreGetTokenReturn
    \/ RestoreGetUserReturn
    \/ RestoreValidateReturn
    \/ RestoreRemoveTokenReturn
    \/ RestoreRemoveUserReturn

Spec == Init /\ [][Next]_vars

\* The same program where AsyncStorage never fails and the earlier run left
\* both entries or none: no call ends on a rejected getItem, setItem or
\* removeItem.
StorageCallFailed ==
    /\ Len(completed.result) > 1
    /\ completed.result[Len(completed.result)]
          \in {"storage read failed", "storage write failed", "storage delete failed"}

InitPaired ==
    /\ Init
    /\ KEYS.TOKEN \in DOMAIN storage <=> KEYS.USER \in DOMAIN storage

NextReliable ==
    \/ \E i \in SignInIds : SignInStart(i)
    \/ \E i \in SignInIds : SignInAuthReturn(i)
    \/ \E i \in SignInIds : SignInProfileReturn(i)
    \/ \E i \in SignInIds : SignInSetTokenReturn(i) /\ ~StorageCallFailed'
    \/ \E i \in SignInIds : SignInSetUserReturn(i) /\ ~StorageCallFailed'
    \/ SignOutStart
    \/ SignOutRevokeReturn
    \/ SignOutRemoveTokenReturn /\ ~StorageCallFailed'
    \/ SignOutRemoveUserReturn /\ ~StorageCallFailed'
    \/ RestoreGetTokenReturn /\ ~StorageCallFailed'
    \/ RestoreGetUserReturn /\ ~StorageCallFailed'
    \/ RestoreValidateReturn
    \/ RestoreRemoveTokenReturn /\ ~StorageCallFailed'
    \/ RestoreRemoveUserReturn /\ ~StorageCallFailed'

SpecReliable == InitPaired /\ [][NextReliable]_vars

TypeOK ==
    /\ user \in Users \cup {EmptyUser}
    /\ userToken \in Tokens \cup {""}
    /\ isLoggingIn \in BOOLEAN
    /\ isLoggingOut \in BOOLEAN
    /\ DOMAIN headers \subseteq {"Client-Id", "Authorization"}
    /\ DOMAIN storage \subseteq {KEYS.TOKEN, KEYS.USER}

(* ---------------------------- properties ------------------------------- *)
NoSignInFlight == \A i \in SignInIds : ~SignInFlight(i)
BothKeys == {KEYS.TOKEN, KEYS.USER}

\* the error a call rejected with goes back to this cause
RejectedBecause(result, cause) ==
    /\ Len(result) > 1
    /\ result[1] = "rejected"
    /\ result[Len(result)] = cause

\* C1: when a signOut that no other call overlapped and whose two deletions
\* succeeded has completed, user and token are empty, both persisted entries
\* are absent and there is no Authorization header, whether the revocation
\* succeeded or failed and whatever the session was before.
C1_SignOutClearsSession ==
    (completed.op = "signOut" /\ completed.solo /\ completed.deletes = BothKeys)
        => /\ user = EmptyUser
           /\ userToken = ""
           /\ DOMAIN storage = {}
           /\ "Authorization" \notin DOMAIN headers

\* a signOut alone completed although its revocation failed
C1_Witness ==
    /\ completed.op = "signOut"
    /\ completed.solo
    /\ completed.deletes = BothKeys
    /\ completed.revoked = "failed"

\* C2: when a signIn that no other call overlapped has resolved, user and token
\* are non-empty, the user is the first profile record returned, the persisted
\* token equals the token in memory and the persisted user is the
\* serialization of the user in memory.
C2_SignInCommitsSession ==
    (completed.op = "signIn" /\ completed.solo /\ completed.result = Resolved)
        => /\ completed.auth = "success"
           /\ completed.profile = "ok"
           /\ completed.writes = BothKeys
           /\ user # EmptyUser
           /\ userToken # ""
           /\ user = completed.first
           /\ DOMAIN storage = BothKeys
           /\ storage[KEYS.TOKEN] = userToken
           /\ storage[KEYS.USER] = Stringify(user)
           /\ Parse(storage[KEYS.USER]) = user

\* a signIn alone resolved over a storage that held another token
C2_Witness ==
    /\ completed.op = "signIn"
    /\ completed.solo
    /\ completed.result = Resolved
    /\ userToken = "t2"
    /\ user.login = "bob"

\* C3: a signIn whose authorization result is not a success rejects with the
\* access-denied error, having made no profile request and no storage write.
C3_DeniedWritesNothing ==
    (completed.op = "signIn" /\ completed.auth # "success")
        => /\ RejectedBecause(completed.result, "Access denied")
           /\ completed.profile = "none"
           /\ completed.writes = {}

\* a signIn was cancelled in the authorization flow
C3_Witness ==
    /\ completed.op = "signIn"
    /\ completed.auth = "cancel"
    /\ RejectedBecause(completed.result, "Access denied")

\* C4: a signIn whose authorization succeeded and whose profile request failed
\* rejects with the profile error, having made no storage write.
C4_ProfileFailureWritesNothing ==
    (completed.op = "signIn" /\ completed.profile = "failed")
        => /\ completed.auth = "success"
           /\ RejectedBecause(completed.result, "profile request failed")
           /\ completed.writes = {}

\* a signIn obtained a token and its profile request failed
C4_Witness ==
    /\ completed.op = "signIn"
    /\ completed.auth = "success"
    /\ completed.profile = "failed"
    /\ "Authorization" \in DOMAIN headers

\* the restore read a token and a user and the validation answered that user's login
RestoreValidatedMatch ==
    /\ completed.op = "restore"
    /\ DOMAIN completed.locals = BothKeys
    /\ completed.validated = Parse(completed.locals[KEYS.USER]).login

\* C5: when a restore that read a persisted token and user, and whose
\* validation answered the persisted user's login, finishes, the token in
\* memory is the persisted token and the user in memory the persisted user (the
\* entries the restore read, which are the stored ones when nothing overlapped
\* it), and validation is the only request the restore made.
C5_RestoreOnMatch ==
    RestoreValidatedMatch
        => /\ completed.result = Resolved
           /\ userToken = completed.locals[KEYS.TOKEN]
           /\ Stringify(user) = completed.locals[KEYS.USER]
           /\ completed.requests = {"validate"}
           /\ completed.solo => /\ DOMAIN storage = BothKeys
                                /\ storage[KEYS.TOKEN] = userToken
                                /\ storage[KEYS.USER] = Stringify(user)

\* the restore alone brought back the stored session
C5_Witness ==
    /\ RestoreValidatedMatch
    /\ completed.solo
    /\ userToken # ""
    /\ user # EmptyUser

C7_LoggingOutFlag ==
    /\ SignOutFlight => isLoggingOut
    /\ completed.op = "signOut" => ~isLoggingOut

\* C8: isLoggingIn is false whenever no signIn and no restore is in flight.
C8_LoggingInReset ==
    (NoSignInFlight /\ ~RestoreFlight) => ~isLoggingIn

\* a signIn has just left through a failed storage write, nothing else runs
C8_Witness ==
    /\ NoSignInFlight
    /\ ~RestoreFlight
    /\ completed.op = "signIn"
    /\ RejectedBecause(completed.result, "storage write failed")

\* C9: isLoggingIn is true at every point where a signIn is in flight.
C9_LoggingInHeld ==
    \A i \in SignInIds : SignInFlight(i) => isLoggingIn

\* C10: at every suspension point, and when nothing is in flight, user and
\* token are both present or both absent.
C10_UserAndTokenTogether ==
    (user = EmptyUser) <=> (userToken = "")

\* a session is in memory while a signIn, the signOut and the restore are in flight
C10_Witness ==
    /\ user # EmptyUser
    /\ userToken # ""
    /\ \E i \in SignInIds : si[i].pc = "setTok"
    /\ SignOutFlight
    /\ RestoreFlight

Quiescent == NoSignInFlight /\ ~SignOutFlight /\ ~RestoreFlight

\* C11: a signOut whose revocation failed and whose two deletions succeeded
\* resolves, and once the revocation has settled, either way, the teardown has
\* run: a signOut that nothing overlapped waits for its deletions, and
\* finishes, with user, token and Authorization header cleared.
C11_RevocationFailureSwallowed ==
    /\ (completed.op = "signOut" /\ completed.revoked = "failed"
            /\ completed.deletes = BothKeys)
         => completed.result = Resolved
    /\ (completed.op = "signOut" /\ completed.solo)
         => /\ completed.revoked \in {"ok", "failed"}
            /\ user = EmptyUser
            /\ userToken = ""
            /\ "Authorization" \notin DOMAIN headers
    /\ (so.pc \in {"rmTok", "rmUser"} /\ so.solo)
         => /\ so.revoked \in {"ok", "failed"}
            /\ user = EmptyUser
            /\ userToken = ""
            /\ "Authorization" \notin DOMAIN headers

\* a signOut resolved after a failed revocation
C11_Witness ==
    /\ completed.op = "signOut"
    /\ completed.revoked = "failed"
    /\ completed.result = Resolved

\* C12: whenever nothing is in flight and the token in memory is non-empty, the
\* default headers carry the client id and Authorization: Bearer <that token>.
C12_HeaderFollowsToken ==
    (Quiescent /\ userToken # "")
        => /\ DOMAIN headers = {"Client-Id", "Authorization"}
           /\ headers["Client-Id"] = CLIENT_ID
           /\ headers["Authorization"] = Bearer(userToken)

\* the restore read a token and the validation answered a login that is not
\* the login of the user it read, or it read no user
RestoreValidatedMismatch ==
    /\ completed.op = "restore"
    /\ KEYS.TOKEN \in DOMAIN completed.locals
    /\ completed.validated \in Logins
    /\ \/ KEYS.USER \notin DOMAIN completed.locals
       \/ completed.validated # Parse(completed.locals[KEYS.USER]).login

\* C13: when a restore that read a persisted token, and whose validation
\* answered another login than the persisted user's (or no user is persisted),
\* finishes, it resolves, has deleted nothing and isLoggingIn is false; no step
\* of it has changed user, token or the persisted entries, so that on startup,
\* with nothing overlapping it, user and token are still empty and both
\* persisted entries are as the restore read them.
C13_MismatchOutcome ==
    RestoreValidatedMismatch
        => /\ completed.result = Resolved
           /\ completed.deletes = {}
           /\ ~isLoggingIn
           /\ completed.solo => /\ user = EmptyUser
                                /\ userToken = ""
                                /\ storage = completed.locals

C13_MismatchStep ==
    (rs'.pc # rs.pc /\ (rs.pc \in {"getTok", "getUser"} \/ RestoreValidatedMismatch'))
        => UNCHANGED <<user, userToken, storage>>

C13_RestoreOnMismatch == []C13_MismatchOutcome /\ [][C13_MismatchStep]_vars

\* the restore alone met a login that is not the persisted user's
C13_Witness ==
    /\ RestoreValidatedMismatch
    /\ completed.solo
    /\ DOMAIN completed.locals = BothKeys
    /\ DOMAIN storage = BothKeys

\* C16: whenever nothing is in flight and the token in memory is empty, there
\* is no default Authorization header.
C16_NoHeaderWithoutToken ==
    (Quiescent /\ userToken = "") => "Authorization" \notin DOMAIN headers

RestoreReadNoToken ==
    /\ completed.op = "restore"
    /\ completed.outcome \notin {"readFailed", "invalid"}
    /\ KEYS.TOKEN \notin DOMAIN completed.locals

\* C15: a restore that finds no persisted token resolves having made no
\* validation call and no deletion, and none of its steps changes isLoggingIn,
\* user, token, the persisted entries or the default headers; on startup, with
\* nothing overlapping it, isLoggingIn is false, user and token are empty,
\* there is no Authorization header and storage is as it was read, a user
\* entry without a token included.
C15_NoTokenOutcome ==
    RestoreReadNoToken
        => /\ completed.result = Resolved
           /\ completed.requests = {}
           /\ completed.validated = "none"
           /\ completed.deletes = {}
           /\ completed.solo => /\ ~isLoggingIn
                                /\ user = EmptyUser
                                /\ userToken = ""
                                /\ "Authorization" \notin DOMAIN headers
                                /\ storage = completed.locals

C15_NoTokenStep ==
    (rs'.pc # rs.pc /\ (rs.pc = "getTok"
                        \/ (rs.pc = "getUser" /\ KEYS.TOKEN \notin DOMAIN rs.locals)))
        => /\ UNCHANGED <<isLoggingIn, user, userToken, storage, headers>>
           /\ rs'.requests = {}

C15_RestoreWithoutToken == []C15_NoTokenOutcome /\ [][C15_NoTokenStep]_vars

\* the restore alone found a user entry and no token
C15_Witness ==
    /\ RestoreReadNoToken
    /\ completed.solo
    /\ completed.result = Resolved
    /\ DOMAIN completed.locals = {KEYS.USER}
    /\ DOMAIN storage = {KEYS.USER}

\* C17: when a signIn that no other call overlapped has rejected, for whatever
\* reason, user and token are what they were when it was called: nothing but
\* the call itself can have changed them, and it has not.
C17_RejectedKeepsSession ==
    (completed.op = "signIn" /\ completed.solo /\ completed.result # Resolved)
        => ~completed.changed

\* C18: with every storage call succeeding (and the earlier run having left
\* both entries or none), whenever nothing is in flight the token entry is
\* persisted if and only if the user entry is.
C18_EntriesPaired ==
    Quiescent => (KEYS.TOKEN \in DOMAIN storage <=> KEYS.USER \in DOMAIN storage)

\* C19: whenever nothing is in flight and the token in memory is non-empty, the
\* persisted token entry exists and equals it (here with every storage call
\* succeeding).
C19_TokenPersisted ==
    (Quiescent /\ userToken # "")
        => /\ KEYS.TOKEN \in DOMAIN storage
           /\ storage[KEYS.TOKEN] = userToken

====
